---- MODULE Spec2Model ----
(***************************************************************************)
(* Human36mDataset.get_sequence_indices (mmpose/datasets/datasets/body3d/  *)
(* h36m_dataset.py) and the pose-lifting codec's encode/decode round trip  *)
(* exercised by tests/test_codecs/test_mono_pose_lifting.py.               *)
(*                                                                         *)
(* Strings are sequences of one-character strings, compared by code point  *)
(* as Python compares str.  Record indices keep Python's 0-based values;   *)
(* a TLA+ sequence position p holds the element of Python position p-1.    *)
(***************************************************************************)
EXTENDS Integers, Sequences, FiniteSets, TLC

\* ------------------------------------------------------------------ bounds
\* Largest number of rows of the annotation table under Spec (two videos).
MaxRecords == 5
\* Largest number of rows of the annotation table under SpecThreeVideos.
MaxRecords3 == 3
\* seq_len ranges over 0..MaxSeqLen (0 is the non-positive value).
MaxSeqLen == 3
\* seq_step ranges over 0..MaxSeqStep (0 is the non-positive value).
MaxSeqStep == 2
\* multiple_target ranges over 0..MaxMultipleTarget.
MaxMultipleTarget == 2

\* subset_frac values, as exact fractions <<numerator, denominator>> with a
\* power-of-two denominator, so that len * subset_frac is exact in binary
\* floating point, as in the arithmetic of line 229.
SubsetFracs == {<<1, 4>>, <<1, 2>>, <<3, 4>>, <<1, 1>>}

\* The videos of the annotation table: the image-name stem of each (what
\* precedes the frame-number field) and the (subject, action, camera) it
\* stands for.  The three orders differ: by key, by base name, by full name.
Videos ==
    { [stem |-> <<"S", "1", "_", "A", ".", "2">>,
       key  |-> << <<"S", "1">>, <<"A">>, <<"2">> >>],
      [stem |-> <<"S", "1", "1", "_", "A", ".", "1">>,
       key  |-> << <<"S", "1", "1">>, <<"A">>, <<"1">> >>],
      [stem |-> <<"d", "/", "S", "1", "_", "A", ".", "1", "0">>,
       key  |-> << <<"S", "1">>, <<"A">>, <<"1", "0">> >>] }

Max(a, b) == IF a >= b THEN a ELSE b
Min(a, b) == IF a <= b THEN a ELSE b

\* ----------------------------------------------------------------- strings
\* ord(c) of the characters image names are made of.
Ord(c) ==
    CASE c = "." -> 46 [] c = "/" -> 47
      [] c = "0" -> 48 [] c = "1" -> 49 [] c = "2" -> 50 [] c = "3" -> 51
      [] c = "4" -> 52 [] c = "5" -> 53 [] c = "6" -> 54 [] c = "7" -> 55
      [] c = "8" -> 56 [] c = "9" -> 57
      [] c = "A" -> 65 [] c = "S" -> 83 [] c = "_" -> 95
      [] c = "d" -> 100 [] c = "g" -> 103 [] c = "j" -> 106 [] c = "p" -> 112

\* Python's a < b on str: lexicographic by code point, a proper prefix first.
RECURSIVE StrLess(_, _)
StrLess(a, b) ==
    IF a = <<>> THEN b # <<>>
    ELSE IF b = <<>> THEN FALSE
    ELSE IF Ord(Head(a)) < Ord(Head(b)) THEN TRUE
    ELSE IF Ord(Head(a)) > Ord(Head(b)) THEN FALSE
    ELSE StrLess(Tail(a), Tail(b))

\* Python's a < b on tuples of str: the first differing component decides.
RECURSIVE TupleLess(_, _)
TupleLess(a, b) ==
    IF a = <<>> THEN b # <<>>
    ELSE IF b = <<>> THEN FALSE
    ELSE IF Head(a) # Head(b) THEN StrLess(Head(a), Head(b))
    ELSE TupleLess(Tail(a), Tail(b))

\* The first position of sep in s, 0 when absent.
Find(s, sep) ==
    IF \E i \in 1..Len(s) : s[i] = sep
    THEN CHOOSE i \in 1..Len(s) : s[i] = sep /\ \A j \in 1..(i - 1) : s[j] # sep
    ELSE 0

\* s.split(sep, 1): two parts around the first sep, or s alone.
Split1(s, sep) ==
    LET i == Find(s, sep)
    IN  IF i = 0 THEN <<s>>
        ELSE <<SubSeq(s, 1, i - 1), SubSeq(s, i + 1, Len(s))>>

\* osp.basename(p): what follows the last "/".
Basename(p) ==
    IF \E i \in 1..Len(p) : p[i] = "/"
    THEN LET i == CHOOSE k \in 1..Len(p) :
                      p[k] = "/" /\ \A j \in (k + 1)..Len(p) : p[j] # "/"
         IN  SubSeq(p, i + 1, Len(p))
    ELSE p

\* _parse_h36m_imgname with the camera left out of the key: the cameras of
\* one subject and action fall into one video.
_parse_h36m_imgname_NoCamera(imgname) ==
    LET a == Split1(Basename(imgname), "_")
        b == Split1(a[2], ".")
    IN  <<a[1], b[1]>>

\* _parse_h36m_imgname: (subj, action, camera), or "ValueError" when a split
\* yields one part and the two-name unpacking fails.
_parse_h36m_imgname(imgname) ==
    LET a == Split1(Basename(imgname), "_")
    IN  IF Len(a) < 2 THEN "ValueError"
        ELSE LET b == Split1(a[2], ".")
             IN  IF Len(b) < 2 THEN "ValueError"
                 ELSE LET c == Split1(b[2], "_")
                      IN  IF Len(c) < 2 THEN "ValueError"
                          ELSE <<a[1], b[1], c[1]>>


\* ------------------------------------------------------------ Python lists
\* s[start:stop:step] for step > 0: a negative bound counts from the end, and
\* both are clamped to 0..len(s).
PySlice(s, start, stop, step) ==
    LET n     == Len(s)
        lo    == IF start < 0 THEN Max(start + n, 0) ELSE Min(start, n)
        hi    == IF stop < 0 THEN Max(stop + n, 0) ELSE Min(stop, n)
        count == IF hi > lo THEN (hi - lo + step - 1) \div step ELSE 0
    IN  [j \in 1..count |-> s[lo + (j - 1) * step + 1]]

\* [x] * k: k copies of x, none when k <= 0.
Repeat(x, k) == [j \in 1..k |-> x]

\* list.extend over a list of lists, in order.
RECURSIVE Flatten(_)
Flatten(ss) == IF ss = <<>> THEN <<>> ELSE Head(ss) \o Flatten(Tail(ss))

\* ------------------------------------------------- grouping (lines 178-182)
\* video_frames[key].append(idx) on a defaultdict(list), kept as the list of
\* its (key, indices) items in insertion order.
AddFrame(vf, key, idx) ==
    IF \E p \in 1..Len(vf) : vf[p][1] = key
    THEN [p \in 1..Len(vf) |->
             IF vf[p][1] = key THEN <<key, Append(vf[p][2], idx)>> ELSE vf[p]]
    ELSE Append(vf, <<key, <<idx>>>>)

\* The loop over enumerate(imgnames), after its first n iterations.
RECURSIVE VideoFramesUpTo(_, _)
VideoFramesUpTo(names, n) ==
    IF n = 0 THEN <<>>
    ELSE AddFrame(VideoFramesUpTo(names, n - 1),
                  _parse_h36m_imgname(names[n]), n - 1)

video_frames(names) == VideoFramesUpTo(names, Len(names))

\* sorted(video_frames.items()): keys are distinct, so the key decides.
RECURSIVE InsertItem(_, _)
InsertItem(sorted, item) ==
    IF sorted = <<>> THEN <<item>>
    ELSE IF TupleLess(item[1], Head(sorted)[1]) THEN <<item>> \o sorted
    ELSE <<Head(sorted)>> \o InsertItem(Tail(sorted), item)

RECURSIVE SortedFrom(_, _)
SortedFrom(items, n) ==
    IF n = 0 THEN <<>> ELSE InsertItem(SortedFrom(items, n - 1), items[n])

\* SortedItems without the sort: the items in insertion order.
SortedItems_Unsorted(items) == items

SortedItems(items) == SortedFrom(items, Len(items))

\* ------------------------------------------- per-video builders (189-226)
\* MultiTargetSeqs without the cut to n_frame // multiple_target: the last,
\* partial group is kept.
MultiTargetSeqs_KeepPartial(_indices, multiple_target, _step) ==
    [g \in 1..((Len(_indices) + multiple_target - 1) \div multiple_target) |->
        PySlice(_indices, (g - 1) * multiple_target,
                (g - 1) * multiple_target + multiple_target, _step)]

\* Lines 192-195: one slice per range(0, n_frame, multiple_target), cut to
\* the first n_frame // multiple_target of them.
MultiTargetSeqs(_indices, multiple_target, _step) ==
    LET n_frame == Len(_indices)
        groups  == [g \in 1..((n_frame + multiple_target - 1) \div multiple_target) |->
                       PySlice(_indices, (g - 1) * multiple_target,
                               (g - 1) * multiple_target + multiple_target, _step)]
    IN  PySlice(groups, 0, n_frame \div multiple_target, 1)

\* PaddedSeq with the window's start counted in frames, not in steps:
\* max(i % _step, i - frames_left).
PaddedSeq_StartInFrames(_indices, seq_len, _step, causal, i) ==
    LET n_frame      == Len(_indices)
        frames_left  == IF causal THEN seq_len - 1 ELSE (seq_len - 1) \div 2
        frames_right == IF causal THEN 0 ELSE frames_left
        pad_left     == Max(0, frames_left - (i \div _step))
        pad_right    == Max(0, frames_right - ((n_frame - 1 - i) \div _step))
        start        == Max(i % _step, i - frames_left)
        end          == Min(n_frame - ((n_frame - 1 - i) % _step),
                            i + frames_right * _step + 1)
    IN  Repeat(_indices[1], pad_left)
          \o PySlice(_indices, start, end, _step)
          \o Repeat(_indices[n_frame], pad_right)

\* PaddedSeq with pad_left counted in frames, not in steps:
\* max(0, frames_left - i).
PaddedSeq_PadInFrames(_indices, seq_len, _step, causal, i) ==
    LET n_frame      == Len(_indices)
        frames_left  == IF causal THEN seq_len - 1 ELSE (seq_len - 1) \div 2
        frames_right == IF causal THEN 0 ELSE frames_left
        pad_left     == Max(0, frames_left - i)
        pad_right    == Max(0, frames_right - ((n_frame - 1 - i) \div _step))
        start        == Max(i % _step, i - frames_left * _step)
        end          == Min(n_frame - ((n_frame - 1 - i) % _step),
                            i + frames_right * _step + 1)
    IN  Repeat(_indices[1], pad_left)
          \o PySlice(_indices, start, end, _step)
          \o Repeat(_indices[n_frame], pad_right)

\* Lines 205-220: one padded window per frame i.
PaddedSeq(_indices, seq_len, _step, causal, i) ==
    LET n_frame      == Len(_indices)
        frames_left  == IF causal THEN seq_len - 1 ELSE (seq_len - 1) \div 2
        frames_right == IF causal THEN 0 ELSE frames_left
        pad_left     == Max(0, frames_left - (i \div _step))
        pad_right    == Max(0, frames_right - ((n_frame - 1 - i) \div _step))
        start        == Max(i % _step, i - frames_left * _step)
        end          == Min(n_frame - ((n_frame - 1 - i) % _step),
                            i + frames_right * _step + 1)
    IN  Repeat(_indices[1], pad_left)
          \o PySlice(_indices, start, end, _step)
          \o Repeat(_indices[n_frame], pad_right)

PaddedSeqs(_indices, seq_len, _step, causal) ==
    [k \in 1..Len(_indices) |-> PaddedSeq(_indices, seq_len, _step, causal, k - 1)]

\* SlidingSeqs with the range one short: range(0, n_frame - _len).
SlidingSeqs_OneShort(_indices, _len, _step) ==
    [k \in 1..Max(Len(_indices) - _len, 0) |->
        PySlice(_indices, k - 1, k - 1 + _len, _step)]

\* Lines 222-225: one window per i in range(0, n_frame - _len + 1).
SlidingSeqs(_indices, _len, _step) ==
    [k \in 1..Max(Len(_indices) - _len + 1, 0) |->
        PySlice(_indices, k - 1, k - 1 + _len, _step)]

\* The sequences one video contributes, by the branch the options select.
SeqsFromVideo(_indices, o) ==
    IF o.multiple_target # 0
    THEN MultiTargetSeqs(_indices, o.multiple_target, o.seq_step)
    ELSE IF o.pad_video_seq
    THEN PaddedSeqs(_indices, o.seq_len, o.seq_step, o.causal)
    ELSE SlidingSeqs(_indices, (o.seq_len - 1) * o.seq_step + 1, o.seq_step)

\* sequence_indices before the reduction (lines 185-226).
BuildSequenceIndices(names, o) ==
    LET items == SortedItems(video_frames(names))
    IN  Flatten([v \in 1..Len(items) |-> SeqsFromVideo(items[v][2], o)])

\* What the build raises, "none" when it completes.  A name that does not
\* parse fails the unpacking of line 181.  With seq_step = 0 the first slice
\* evaluated raises ValueError (slice step cannot be zero) and the padded
\* branch divides by zero at line 212; either needs a video to work on.
BuildRaises(names, o) ==
    IF \E n \in 1..Len(names) : _parse_h36m_imgname(names[n]) = "ValueError"
    THEN "ValueError"
    ELSE IF o.seq_step = 0 /\ names # <<>>
    THEN IF o.multiple_target = 0 /\ o.pad_video_seq
         THEN "ZeroDivisionError" ELSE "ValueError"
    ELSE "none"

\* ---------------------------------------------- the reduction (228-233)
\* SubsetSize rounded to the nearest whole number, halves up.
SubsetSize_Rounded(total, frac) == (2 * total * frac[1] + frac[2]) \div (2 * frac[2])

\* int(len(sequence_indices) * self.subset_frac)
SubsetSize(total, frac) == (total * frac[1]) \div frac[2]

\* RandomStarts with the upper end included, as random.randint has it.
RandomStarts_Inclusive(total, subset_size) == 0..(total - subset_size + 1)

\* The values np.random.randint(0, len(sequence_indices) - subset_size + 1)
\* can return.
RandomStarts(total, subset_size) == 0..(total - subset_size)

\* Reduce with the slice ended at subset_size, the start not added:
\* sequence_indices[start:subset_size].
Reduce_EndAtSize(sequence_indices, start, subset_size) ==
    PySlice(sequence_indices, start, subset_size, 1)

\* sequence_indices[start:end]
Reduce(sequence_indices, start, subset_size) ==
    PySlice(sequence_indices, start, start + subset_size, 1)


\* ------------------------------------------------------------------- state
VARIABLES
    imgnames,   \* self.ann_data['imgname']: the image name of every record
    self,       \* the options the dataset object stores
    pc,         \* "new", "constructed", or "ValueError" once __init__ raised
    returned,   \* the outcome of the latest get_sequence_indices call
    previous,   \* the outcome of the call before the latest
    codec,      \* the codec's options
    lifting_target, \* the 3D target handed to encode: K joints of (x, y, z)
    encoded,    \* what encode returned
    decoded     \* what decode returned

dataset_vars == <<imgnames, self, returned, previous>>
codec_vars == <<codec, lifting_target, encoded, decoded>>
vars == <<imgnames, self, pc, returned, previous,
          codec, lifting_target, encoded, decoded>>

\* The frame-number digit of the k-th frame of a video.
Digit(k) == <<"1", "2", "3", "4", "5", "6", "7", "8", "9">>[k]

\* The annotation table naming the videos vs row by row: stem, "_", the
\* frame's number within its video, ".jpg".
Table(vs) ==
    [n \in 1..Len(vs) |->
        vs[n].stem
          \o <<"_", Digit(Cardinality({m \in 1..n : vs[m] = vs[n]}))>>
          \o <<".", "j", "p", "g">>]

SUPPORTED_keypoint_2d_src == {"gt", "detection", "pipeline"}

\* The keypoint_2d_src values tried: one supported, one not.
KeypointSrcs == {"gt", "video"}

\* No call made yet.
NoOutcome == [kind |-> "none", value |-> <<>>]

\* The defaults of the signature (lines 109-116).
Defaults ==
    [seq_len |-> 1, seq_step |-> 1, multiple_target |-> 0,
     pad_video_seq |-> FALSE, causal |-> TRUE, subset_frac |-> <<1, 1>>,
     keypoint_2d_src |-> "gt"]

\* The two videos of subject S1, which differ by their camera alone.
VideosS1 == {v \in Videos : v.key[1] = <<"S", "1">>}

\* The codec at rest: default options, nothing encoded or decoded.
NoLabel == [lifting_target_label |-> <<>>, target_root |-> <<>>]
NoPose == [keypoints |-> <<>>, scores |-> <<>>]
CodecDefaults == [zero_center |-> TRUE, remove_root |-> FALSE]

CodecIdle ==
    /\ codec = CodecDefaults
    /\ lifting_target = <<>>
    /\ encoded = NoLabel
    /\ decoded = NoPose

\* A dataset object about to be constructed over a table of at most
\* maxRecords rows naming videos of pool.
InitWith(pool, maxRecords) ==
    /\ \E n \in 0..maxRecords : \E vs \in [1..n -> pool] : imgnames = Table(vs)
    /\ self = Defaults
    /\ CodecIdle
    /\ pc = "new"
    /\ returned = NoOutcome
    /\ previous = NoOutcome

Init == InitWith(VideosS1, MaxRecords)

InitThreeVideos == InitWith(Videos, MaxRecords3)

\* Human36mDataset.__init__ (lines 108-171): the keypoint_2d_src check, then
\* the options stored on the object, here and through super().__init__.
__init__ ==
    /\ pc = "new"
    /\ \E seq_len \in 0..MaxSeqLen, seq_step \in 0..MaxSeqStep,
          multiple_target \in 0..MaxMultipleTarget,
          pad_video_seq \in BOOLEAN, causal \in BOOLEAN,
          subset_frac \in SubsetFracs,
          keypoint_2d_src \in KeypointSrcs :
          IF keypoint_2d_src \notin SUPPORTED_keypoint_2d_src
          THEN /\ pc' = "ValueError"
               /\ self' = [self EXCEPT !.keypoint_2d_src = keypoint_2d_src]
          ELSE /\ pc' = "constructed"
               /\ self' = [seq_len |-> seq_len, seq_step |-> seq_step,
                           multiple_target |-> multiple_target,
                           pad_video_seq |-> pad_video_seq, causal |-> causal,
                           subset_frac |-> subset_frac,
                           keypoint_2d_src |-> keypoint_2d_src]
    /\ UNCHANGED <<imgnames, returned, previous>>
    /\ UNCHANGED codec_vars

\* What one call of get_sequence_indices (lines 173-235) can produce: the
\* exception the build raises, or the slice at one of the random starts.
Outcomes(names, o) ==
    IF BuildRaises(names, o) # "none"
    THEN {[kind |-> BuildRaises(names, o), value |-> <<>>]}
    ELSE LET sequence_indices == BuildSequenceIndices(names, o)
             subset_size == SubsetSize(Len(sequence_indices), o.subset_frac)
         IN  {[kind |-> "list",
               value |-> Reduce(sequence_indices, start, subset_size)] :
                 start \in RandomStarts(Len(sequence_indices), subset_size)}

get_sequence_indices ==
    /\ pc = "constructed"
    /\ \E out \in Outcomes(imgnames, self) :
          /\ returned' = out
          /\ previous' = returned
    /\ UNCHANGED <<imgnames, self, pc>>
    /\ UNCHANGED codec_vars

Next == __init__ \/ get_sequence_indices

Spec == Init /\ [][Next]_vars

\* The same program over tables that interleave three videos.
SpecThreeVideos == InitThreeVideos /\ [][Next]_vars


\* ------------------------------------------------------ pose-lifting codec
\* The codec's encode and decode, after sections 3 and 4.2 of the
\* specification and the calls of test_cicular_verification; one frame
\* (N = 1), whole-number coordinates.

\* Largest number of joints K of a target.
MaxKeypoints == 3
\* The coordinates a joint is drawn from: within and beyond the tolerance.
CoordValues == {-7, 2}

\* The root joint's index.
root_index == 0
\* atol of the test's np.allclose.
Tol == 5

Abs(x) == IF x < 0 THEN 0 - x ELSE x

\* np.delete(pose, idx, axis=-2)
DeleteJoint(pose, idx) ==
    [j \in 1..(Len(pose) - 1) |-> IF j <= idx THEN pose[j] ELSE pose[j + 1]]

\* np.insert(pose, idx, joint, axis=-2)
InsertJoint(pose, idx, joint) ==
    [j \in 1..(Len(pose) + 1) |->
        IF j <= idx THEN pose[j] ELSE IF j = idx + 1 THEN joint ELSE pose[j - 1]]

\* pose + offset, pose - offset: the offset broadcast over the joints.
AddToJoints(pose, offset) ==
    [j \in 1..Len(pose) |-> [c \in 1..3 |-> pose[j][c] + offset[c]]]
SubFromJoints(pose, offset) ==
    [j \in 1..Len(pose) |-> [c \in 1..3 |-> pose[j][c] - offset[c]]]

\* encode's lifting_target_label: root-relative when zero_center, the root
\* row dropped when remove_root.
LiftingTargetLabel(cfg, target) ==
    LET centred == IF cfg.zero_center
                   THEN SubFromJoints(target, target[root_index + 1])
                   ELSE target
    IN  IF cfg.remove_root THEN DeleteJoint(centred, root_index) ELSE centred

\* decode's coordinates with target_root supplied: the root added back to
\* every joint, and reinserted at its index when the codec removes it.
DecodeKeypoints_RootAppended(cfg, pred, target_root) ==
    LET shifted == AddToJoints(pred, target_root)
    IN  IF cfg.remove_root THEN Append(shifted, target_root) ELSE shifted

DecodeKeypoints(cfg, pred, target_root) ==
    LET shifted == AddToJoints(pred, target_root)
    IN  IF cfg.remove_root
        THEN InsertJoint(shifted, root_index, target_root)
        ELSE shifted

InitCodec ==
    /\ imgnames = <<>>
    /\ self = Defaults
    /\ returned = NoOutcome
    /\ previous = NoOutcome
    /\ pc = "codec"
    /\ codec \in [zero_center : BOOLEAN, remove_root : BOOLEAN]
    /\ \E K \in 1..MaxKeypoints :
          lifting_target \in [1..K -> [1..3 -> CoordValues]]
    /\ encoded = NoLabel
    /\ decoded = NoPose

\* codec.encode(keypoints, keypoints_visible, lifting_target, ...)
encode ==
    /\ pc = "codec"
    /\ encoded' = [lifting_target_label |-> LiftingTargetLabel(codec, lifting_target),
                   target_root |-> lifting_target[root_index + 1]]
    /\ pc' = "encoded"
    /\ UNCHANGED <<codec, lifting_target, decoded>>
    /\ UNCHANGED dataset_vars

\* codec.decode(encoded['lifting_target_label'],
\*              target_root=lifting_target[..., 0, :])
decode ==
    /\ pc = "encoded"
    /\ LET keypoints == DecodeKeypoints(codec, encoded.lifting_target_label,
                                        lifting_target[root_index + 1])
       IN  decoded' = [keypoints |-> keypoints,
                       scores |-> [j \in 1..Len(keypoints) |-> 1]]
    /\ pc' = "decoded"
    /\ UNCHANGED <<codec, lifting_target, encoded>>
    /\ UNCHANGED dataset_vars

NextCodec == encode \/ decode

SpecCodec == InitCodec /\ [][NextCodec]_vars

\* np.allclose(a, b, atol=Tol) on poses of whole-number coordinates.
AllClose(a, b) ==
    /\ Len(a) = Len(b)
    /\ \A j \in 1..Len(a) : \A c \in 1..3 : Abs(a[j][c] - b[j][c]) <= Tol

\* ------------------------------------------------------------------ claims
\* What the claims speak of is read off the table itself: the video of a
\* record is the entry of Videos whose stem its image name starts with, and
\* the frames of a video are its records in table order.
Stem(imgname) == SubSeq(imgname, 1, Len(imgname) - 6)

VideoOfRecord(idx) == CHOOSE v \in Videos : v.stem = Stem(imgnames[idx + 1])

FramesOfVideo(v) ==
    SelectSeq([i \in 1..Len(imgnames) |-> i - 1],
              LAMBDA idx : Stem(imgnames[idx + 1]) = v.stem)

\* The sequences of list R whose first index is a record of video v.
SeqsOfVideo(R, v) ==
    SelectSeq(R, LAMBDA s : s # <<>> /\ VideoOfRecord(s[1]) = v)

\* A call has returned or raised.
Called == pc = "constructed" /\ returned.kind # "none"

ValidOptions == self.seq_len >= 1 /\ self.seq_step >= 1

NoReduction == self.subset_frac = <<1, 1>>

\* C1: with multiple_target = 0, pad_video_seq = False and subset_frac = 1,
\* a video of n frames contributes exactly max(0, n - L + 1) sequences,
\* L = (seq_len-1)*seq_step + 1, the k-th being its frames at positions
\* k, k+seq_step, ..., k+(seq_len-1)*seq_step; a video with n < L gives none.
C1_SlidingWindows ==
    ( /\ Called /\ ValidOptions /\ NoReduction
      /\ self.multiple_target = 0 /\ ~self.pad_video_seq )
    => /\ returned.kind = "list"
       /\ \A p \in 1..Len(returned.value) : returned.value[p] # <<>>
       /\ \A v \in Videos :
            LET f   == FramesOfVideo(v)
                L   == (self.seq_len - 1) * self.seq_step + 1
                got == SeqsOfVideo(returned.value, v)
            IN  /\ Len(got) = Max(0, Len(f) - L + 1)
                /\ \A k \in 0..(Len(got) - 1) :
                     got[k + 1] =
                       [j \in 1..self.seq_len |-> f[k + (j - 1) * self.seq_step + 1]]

\* C1's case: stepped windows of two frames, two of them from one video,
\* and another video too short for any.
C1_Witness ==
    /\ Called /\ NoReduction
    /\ self.multiple_target = 0 /\ ~self.pad_video_seq
    /\ self.seq_len = 2 /\ self.seq_step = 2
    /\ \E v, w \in Videos :
         /\ Len(SeqsOfVideo(returned.value, v)) = 2
         /\ Len(FramesOfVideo(w)) = 1
         /\ SeqsOfVideo(returned.value, w) = <<>>

\* C3: with multiple_target = m > 0 and subset_frac = 1, a video of n frames
\* contributes exactly floor(n/m) sequences, the k-th holding the frames of
\* its k-th run of m consecutive frames sampled every seq_step, and none of
\* the trailing n mod m frames is in any sequence.
C3_MultipleTarget ==
    ( /\ Called /\ self.seq_step >= 1 /\ NoReduction
      /\ self.multiple_target > 0 )
    => /\ returned.kind = "list"
       /\ \A p \in 1..Len(returned.value) : returned.value[p] # <<>>
       /\ \A v \in Videos :
            LET f   == FramesOfVideo(v)
                m   == self.multiple_target
                got == SeqsOfVideo(returned.value, v)
            IN  /\ Len(got) = Len(f) \div m
                /\ \A k \in 0..(Len(got) - 1) :
                     got[k + 1] =
                       [j \in 1..((m + self.seq_step - 1) \div self.seq_step) |->
                           f[k * m + (j - 1) * self.seq_step + 1]]
                /\ \A t \in (Len(f) - (Len(f) % m) + 1)..Len(f) :
                     \A p \in 1..Len(returned.value) :
                        \A j \in 1..Len(returned.value[p]) :
                           returned.value[p][j] # f[t]

\* C3's case: runs of two frames, a video of three frames (one run kept,
\* one trailing frame dropped) beside a video of two.
C3_Witness ==
    /\ Called /\ NoReduction /\ self.seq_step = 1
    /\ self.multiple_target = 2
    /\ Len(returned.value) = 2
    /\ \E v \in Videos : Len(FramesOfVideo(v)) = 3

\* C4: for every option combination with seq_len >= 1 and seq_step >= 1 and
\* any subset_frac, every returned sequence holds record indices of one
\* single video only, in non-decreasing order.
C4_OneVideoInOrder ==
    (Called /\ ValidOptions)
    => /\ returned.kind = "list"
       /\ \A p \in 1..Len(returned.value) :
            LET s == returned.value[p]
            IN  \A a, b \in 1..Len(s) :
                  a < b => /\ s[a] <= s[b]
                           /\ VideoOfRecord(s[a]) = VideoOfRecord(s[b])

\* C4's case: a reduced list holding a padded window (a repeated index) of
\* a video whose records are interleaved with another's.
C4_Witness ==
    /\ Called /\ ValidOptions /\ ~NoReduction
    /\ self.pad_video_seq /\ self.multiple_target = 0
    /\ \E p \in 1..Len(returned.value) :
         LET s == returned.value[p]
         IN  /\ Len(s) = 3 /\ s[1] = s[2] /\ s[3] > s[2] + 1
             /\ VideoOfRecord(s[2] + 1) # VideoOfRecord(s[2])


\* C2 (as claimed): with multiple_target = 0 and pad_video_seq = True, for
\* every seq_len >= 1, seq_step >= 1 and both values of causal, one sequence
\* is emitted for every frame of every video and each has exactly seq_len
\* elements.
C2_PaddedLength ==
    ( /\ Called /\ ValidOptions /\ NoReduction
      /\ self.multiple_target = 0 /\ self.pad_video_seq )
    => /\ returned.kind = "list"
       /\ \A v \in Videos :
            Len(SeqsOfVideo(returned.value, v)) = Len(FramesOfVideo(v))
       /\ \A p \in 1..Len(returned.value) :
            Len(returned.value[p]) = self.seq_len

\* The number of sequences built before the reduction.
Total == Len(BuildSequenceIndices(imgnames, self))

\* round(num / den) for num >= 0, den > 0, halves to the even neighbour as
\* Python's round does.
RoundHalfEven(num, den) ==
    LET q == num \div den
        r == num % den
    IN  IF 2 * r < den THEN q
        ELSE IF 2 * r > den THEN q + 1
        ELSE IF q % 2 = 0 THEN q ELSE q + 1

\* C6 (as claimed): when subset_frac < 1 the returned list has exactly
\* round(total * subset_frac) sequences.
C6_SubsetSizeRounded ==
    (Called /\ ValidOptions /\ returned.kind = "list" /\ ~NoReduction)
    => Len(returned.value) =
         RoundHalfEven(Total * self.subset_frac[1], self.subset_frac[2])

\* C6 (amended): when subset_frac < 1 the returned list has exactly
\* int(total * subset_frac) sequences: the product cut down to a whole
\* number, never rounded up.
C6_SubsetSizeTruncated ==
    (Called /\ returned.kind = "list" /\ ~NoReduction)
    => /\ self.subset_frac[2] * Len(returned.value) <= Total * self.subset_frac[1]
       /\ Total * self.subset_frac[1] < self.subset_frac[2] * (Len(returned.value) + 1)

\* C6's case: a quarter of three sequences is none, where rounding gives one.
C6_Witness ==
    /\ Called /\ returned.kind = "list" /\ ValidOptions
    /\ self.subset_frac = <<1, 4>>
    /\ Total = 3
    /\ returned.value = <<>>

\* The index of the frame a padded sequence is emitted for.
TargetOf(s) ==
    IF self.causal THEN s[Len(s)] ELSE s[(self.seq_len - 1) \div 2 + 1]

\* C7: in padded mode the sequence emitted for frame i has frame i as its
\* last element when causal, and at position (seq_len-1)//2 otherwise, for
\* every frame of every video and every seq_step >= 1.
C7_PaddedTarget ==
    ( /\ Called /\ ValidOptions /\ NoReduction
      /\ self.multiple_target = 0 /\ self.pad_video_seq )
    => /\ returned.kind = "list"
       /\ \A v \in Videos :
            LET f   == FramesOfVideo(v)
                got == SeqsOfVideo(returned.value, v)
            IN  /\ Len(got) = Len(f)
                /\ \A i \in 1..Len(f) :
                     /\ Len(got[i]) >= 1
                     /\ ~self.causal => Len(got[i]) >= (self.seq_len - 1) \div 2 + 1
                     /\ TargetOf(got[i]) = f[i]

\* C7's case: a centred window of three with step 2 on a video of four
\* frames or more, whose second frame needs padding on the left.
C7_Witness ==
    /\ Called /\ NoReduction
    /\ self.multiple_target = 0 /\ self.pad_video_seq /\ ~self.causal
    /\ self.seq_len = 3 /\ self.seq_step = 2
    /\ \E v \in Videos :
         LET f == FramesOfVideo(v)
         IN  /\ Len(f) >= 4
             /\ SeqsOfVideo(returned.value, v)[2] = <<f[1], f[2], f[4]>>

\* C8 (as claimed): when seq_len < 1 or seq_step < 1, building the sequence
\* index (here over a table that has records) fails with an error; it never
\* returns a list, empty or made of empty sequences.
C8_RejectsNonPositive ==
    (Called /\ ~ValidOptions /\ imgnames # <<>>) => returned.kind # "list"

\* C9 (as claimed): two calls on the same records and options return the
\* same list, whatever the random generator gives.
C9_Deterministic ==
    (Called /\ previous.kind # "none") => returned = previous

\* C9 (amended): two calls return the same list when subset_frac = 1; for
\* any subset_frac they fail alike or return lists of the same length.
C9_DeterministicUnreduced ==
    (Called /\ previous.kind # "none")
    => /\ returned.kind = previous.kind
       /\ Len(returned.value) = Len(previous.value)
       /\ NoReduction => returned = previous

\* C9's case: a second call without reduction that returned two sequences
\* or more.
C9_Witness ==
    /\ Called /\ previous.kind = "list" /\ NoReduction /\ ValidOptions
    /\ Len(returned.value) >= 2

\* The index that orders a video's sequences: the target frame in padded
\* mode, the first frame otherwise.
OrderingFrame(s) ==
    IF self.multiple_target = 0 /\ self.pad_video_seq THEN TargetOf(s) ELSE s[1]

\* C10: with subset_frac = 1 the sequences of a video come before those of
\* every video with a larger (subject, action, camera) key, however the
\* records are interleaved, and within a video they ascend by frame.
C10_VideoOrder ==
    (Called /\ ValidOptions /\ NoReduction)
    => /\ returned.kind = "list"
       /\ \A p, q \in 1..Len(returned.value) :
            p < q =>
              LET s == returned.value[p]
                  t == returned.value[q]
              IN  /\ s # <<>> /\ t # <<>>
                  /\ ~TupleLess(VideoOfRecord(t[1]).key, VideoOfRecord(s[1]).key)
                  /\ VideoOfRecord(s[1]) = VideoOfRecord(t[1])
                       => OrderingFrame(s) < OrderingFrame(t)

\* C10's case: three videos interleaved in the table so that the first
\* record belongs to the video with the largest key, each giving a sequence.
C10_Witness ==
    /\ Called /\ ValidOptions /\ NoReduction
    /\ Len(imgnames) >= 3
    /\ \A v \in Videos : SeqsOfVideo(returned.value, v) # <<>>
    /\ \A v \in Videos : ~TupleLess(VideoOfRecord(0).key, v.key)


C11_ContiguousSlice ==
    (Called /\ returned.kind = "list")
    => LET full == BuildSequenceIndices(imgnames, self)
           size == (Len(full) * self.subset_frac[1]) \div self.subset_frac[2]
       IN  /\ Len(returned.value) = size
           /\ \E start \in 0..(Len(full) - size) :
                \A p \in 1..size : returned.value[p] = full[start + p]
           /\ NoReduction => returned.value = full

\* C11's case: half of three distinct sequences, cut from the middle of
\* the full list.
C11_Witness ==
    /\ Called /\ ValidOptions /\ returned.kind = "list"
    /\ self.subset_frac = <<1, 2>>
    /\ LET full == BuildSequenceIndices(imgnames, self)
       IN  /\ Len(full) = 3
           /\ full[1] # full[2] /\ full[2] # full[3]
           /\ returned.value = <<full[2]>>


\* The frames a padded window reaches to the left and right of its target.
FramesLeft == IF self.causal THEN self.seq_len - 1 ELSE (self.seq_len - 1) \div 2
FramesRight == IF self.causal THEN 0 ELSE (self.seq_len - 1) \div 2

\* Frame i (from 0) of a video of n frames gets no padding element:
\* pad_left = pad_right = 0.
Unpadded(n, i) ==
    /\ i \div self.seq_step >= FramesLeft
    /\ (n - 1 - i) \div self.seq_step >= FramesRight

\* Of the padded sequences got, one per frame of a video, those emitted
\* with no padding element, in order.
UnpaddedSeqs(got) ==
    LET numbered == [i \in 1..Len(got) |-> <<i - 1, got[i]>>]
        kept     == SelectSeq(numbered, LAMBDA t : Unpadded(Len(got), t[1]))
    IN  [k \in 1..Len(kept) |-> kept[k][2]]

\* C12: for the same records, seq_len, seq_step and causal (seq_len odd
\* when causal = False), the sequences padded mode emits with no padding
\* element are, video by video and in the same order, exactly the
\* sequences the non-padded sliding-window mode emits.
C12_PaddedAgreesWithSliding ==
    ( /\ Called /\ ValidOptions /\ NoReduction
      /\ self.multiple_target = 0 /\ self.pad_video_seq
      /\ (self.causal \/ self.seq_len % 2 = 1) )
    => /\ returned.kind = "list"
       /\ LET sliding == BuildSequenceIndices(
                             imgnames, [self EXCEPT !.pad_video_seq = FALSE])
          IN  \A v \in Videos :
                LET got == SeqsOfVideo(returned.value, v)
                IN  /\ Len(got) = Len(FramesOfVideo(v))
                    /\ UnpaddedSeqs(got) = SeqsOfVideo(sliding, v)

\* C12's case: centred windows of three with step 2 over a video of five
\* frames: four padded sequences and one, for the middle frame, that is
\* the video's single sliding window.
C12_Witness ==
    /\ Called /\ NoReduction
    /\ self.multiple_target = 0 /\ self.pad_video_seq /\ ~self.causal
    /\ self.seq_len = 3 /\ self.seq_step = 2
    /\ \E v \in Videos :
         LET f   == FramesOfVideo(v)
             got == SeqsOfVideo(returned.value, v)
         IN  /\ Len(f) = 5
             /\ UnpaddedSeqs(got) = << <<f[1], f[3], f[5]>> >>
             /\ got[2] = <<f[1], f[2], f[4]>>

====
